---------------------------- MODULE Spec2Model ----------------------------
(***************************************************************************)
(* Model of src/src/yams.rs: the combination checkers, the round scorer    *)
(* (calculate_yams_round_score / get_best_case) and the game scorer        *)
(* (calculate_yams_total_score).                                           *)
(*                                                                         *)
(* Three specifications share the variables:                               *)
(*   Spec          calculate_yams_total_score run on an input slice        *)
(*   SpecRound     calculate_yams_round_score called on one hand and one   *)
(*                 list of available combinations                          *)
(*   SpecUnchecked SpecRound with hands whose dice are any small u8 value  *)
(***************************************************************************)
EXTENDS Integers, Sequences, FiniteSets, TLC

VARIABLES
    pc,                       \* position in the function being run
    rounds,                   \* calculate_yams_total_score: the input slice
    dice,                     \* the hand being scored (<<>> before any)
    available_combinations,   \* the Vec / slice of available combinations
    case_results,             \* calculate_yams_round_score: Vec<CaseResult>
    result,                   \* the last Option<(Combination, u32)> returned
    results,                  \* history: the result of every round so far
    sum                       \* calculate_yams_total_score: running total

vars == <<pc, rounds, dice, available_combinations, case_results, result,
          results, sum>>

-----------------------------------------------------------------------------
(* Bounds of the model *)

\* longest input slice of calculate_yams_total_score that is explored
MaxRounds == 7

\* longest list of available combinations drawn with repetitions and in any
\* order (the duplicate-free lists in canonical and in reverse order are
\* drawn whatever their length)
MaxAvailLen == 3

-----------------------------------------------------------------------------
(* Data model *)

\* enum Combination
Combination ==
    {"FourOfAKind", "FullHouse", "ThreeOfAKind", "Straight", "Yams", "Chance"}

ORDERED_COMBINATIONS ==
    <<"Yams", "Straight", "FourOfAKind", "FullHouse", "ThreeOfAKind", "Chance">>

\* enum CombinationResult
Matched(score) == <<"Matched", score>>
NotMatched == <<"NotMatched">>
IsMatched(r) == r[1] = "Matched"

\* Option<T>
Some(x) == <<x>>
None == <<>>

\* type Dice = [u8; 5]: the element type does not restrict a die to 1..6
DieValues == 1..6
U8Small == 0..7
Dice == [1..5 -> DieValues]
DiceUnchecked == [1..5 -> U8Small]

Range(s) == {s[k] : k \in DOMAIN s}

-----------------------------------------------------------------------------
(* Combination checkers *)

\* dice.iter().filter(|x| *x == die).count()
Count(d, die) == Cardinality({k \in DOMAIN d : d[k] = die})

contains_four_of_a_kind(d) == \E k \in DOMAIN d : Count(d, d[k]) >= 4

check_four_of_a_kind(d) ==
    IF contains_four_of_a_kind(d) THEN Matched(35) ELSE NotMatched

\* contains_full_house with the pair test written `count >= 2`
contains_full_house_loose_pair(d) ==
    LET counts == [die \in Range(d) |-> Count(d, die)]
    IN  /\ \E die \in DOMAIN counts : counts[die] = 3
        /\ \E die \in DOMAIN counts : counts[die] >= 2

contains_full_house(d) ==
    LET counts == [die \in Range(d) |-> Count(d, die)]
    IN  /\ \E die \in DOMAIN counts : counts[die] = 3
        /\ \E die \in DOMAIN counts : counts[die] = 2

check_full_house(d) ==
    IF contains_full_house(d) THEN Matched(30) ELSE NotMatched

\* contains_three_of_a_kind with `> 3` for `>= 3`
contains_three_of_a_kind_strict(d) == \E k \in DOMAIN d : Count(d, d[k]) > 3

contains_three_of_a_kind(d) == \E k \in DOMAIN d : Count(d, d[k]) >= 3

check_three_of_a_kind(d) ==
    IF contains_three_of_a_kind(d) THEN Matched(28) ELSE NotMatched

contains_straight(d) ==
    LET sorted_dice == SortSeq(d, LAMBDA a, b : a < b)
    IN  sorted_dice = <<1, 2, 3, 4, 5>> \/ sorted_dice = <<2, 3, 4, 5, 6>>

check_straight(d) ==
    IF contains_straight(d) THEN Matched(40) ELSE NotMatched

is_yams(d) == \A k \in DOMAIN d : d[k] = d[1]

check_yams(d) == IF is_yams(d) THEN Matched(50) ELSE NotMatched

\* let sum: u8 = dice.iter().sum(): an 8-bit sum.  No hand of this model
\* reaches 256 (the largest is 5 * 7), so the overflow case never occurs.
RECURSIVE SumU8(_, _)
SumU8(d, k) == IF k = 0 THEN 0 ELSE (SumU8(d, k - 1) + d[k]) % 256

check_chance(d) == Matched(SumU8(d, Len(d)))

-----------------------------------------------------------------------------
(* Round scorer *)

\* case_map: the HashMap from Combination to its checker, applied to a hand.
\* Every Combination is a key, so get_key_value never filters one out.
case_map(combination, d) ==
    CASE combination = "FourOfAKind"  -> check_four_of_a_kind(d)
      [] combination = "FullHouse"    -> check_full_house(d)
      [] combination = "ThreeOfAKind" -> check_three_of_a_kind(d)
      [] combination = "Straight"     -> check_straight(d)
      [] combination = "Yams"         -> check_yams(d)
      [] combination = "Chance"       -> check_chance(d)

\* checks.iter().map(|(combination, case)| (case(dice), **combination))
CaseResults(d, available) ==
    [k \in 1..Len(available) |-> <<case_map(available[k], d), available[k]>>]

\* the closure with the two scores compared the other way round
compare_reversed(a, b) ==
    IF ~IsMatched(a[1]) THEN "Less"
    ELSE IF ~IsMatched(b[1]) THEN "Greater"
    ELSE IF b[1][2] < a[1][2] THEN "Less"
    ELSE IF b[1][2] > a[1][2] THEN "Greater"
    ELSE "Equal"

\* the closure with a NotMatched left operand ranked above the right one
compare_unranked(a, b) ==
    IF ~IsMatched(a[1]) THEN "Greater"
    ELSE IF ~IsMatched(b[1]) THEN "Greater"
    ELSE IF a[1][2] < b[1][2] THEN "Less"
    ELSE IF a[1][2] > b[1][2] THEN "Greater"
    ELSE "Equal"

\* the closure handed to max_by
compare(a, b) ==
    IF ~IsMatched(a[1]) THEN "Less"
    ELSE IF ~IsMatched(b[1]) THEN "Greater"
    ELSE IF a[1][2] < b[1][2] THEN "Less"
    ELSE IF a[1][2] > b[1][2] THEN "Greater"
    ELSE "Equal"

\* a fold that keeps the first of several maximal elements
RECURSIVE max_by_first(_, _, _)
max_by_first(cases, acc, k) ==
    IF k > Len(cases) THEN acc
    ELSE max_by_first(cases, IF compare(acc, cases[k]) = "Less" THEN cases[k] ELSE acc, k + 1)

\* Iterator::max_by: a left fold that keeps the accumulator only when the
\* closure says Greater, so the last of several maximal elements wins.
RECURSIVE max_by(_, _, _)
max_by(cases, acc, k) ==
    IF k > Len(cases) THEN acc
    ELSE max_by(cases, IF compare(acc, cases[k]) = "Greater" THEN acc ELSE cases[k], k + 1)

get_best_case(cases) ==
    IF cases = <<>> THEN None ELSE Some(max_by(cases, cases[1], 2))

\* max_score.and_then(|case| match case { ... })
RoundScoreOf(cases) ==
    LET max_score == get_best_case(cases)
    IN  IF max_score = None THEN None
        ELSE LET case == max_score[1]
             IN  IF IsMatched(case[1]) THEN Some(<<case[2], case[1][2]>>)
                 ELSE None

calculate_yams_round_score(d, available) ==
    RoundScoreOf(CaseResults(d, available))

-----------------------------------------------------------------------------
(* Game scorer *)

\* retain with the test inverted: only the awarded combination is kept
retain_inverted(available, combination) ==
    SelectSeq(available, LAMBDA c : c = combination)

\* the award is not taken out of the list
retain_skipped(available, combination) == available

\* available_combinations.retain(|&c| c != combination)
retain(available, combination) ==
    SelectSeq(available, LAMBDA c : c /= combination)

-----------------------------------------------------------------------------
(* Inputs the specifications draw from *)

Reverse(s) == [k \in 1..Len(s) |-> s[Len(s) + 1 - k]]

\* the duplicate-free lists in canonical order: what calculate_yams_total_score
\* can hold in available_combinations
CanonicalLists ==
    {SelectSeq(ORDERED_COMBINATIONS, LAMBDA c : c \in S) : S \in SUBSET Combination}

ReverseLists == {Reverse(l) : l \in CanonicalLists}

\* every list, repetitions included, of at most MaxAvailLen combinations
ShortLists == UNION {[1..n -> Combination] : n \in 0..MaxAvailLen}

\* one hand per multiset of five dice
SortedDice == {d \in Dice : \A k \in 1..4 : d[k] <= d[k + 1]}

\* test_yams_total_score
TestGame ==
    << <<3, 3, 3, 2, 5>>, <<4, 4, 4, 4, 1>>, <<2, 2, 3, 3, 3>>,
       <<1, 2, 3, 4, 5>>, <<1, 2, 3, 4, 6>> >>

\* test_no_repeat_combination
NoRepeatGame ==
    << <<1, 1, 1, 2, 2>>, <<2, 2, 2, 3, 3>>, <<3, 3, 3, 4, 4>> >>

\* hands that between them can consume all six combinations
BaseHands ==
    { <<6, 6, 6, 6, 6>>, <<1, 2, 3, 4, 5>>, <<6, 6, 6, 5, 5>>, <<1, 2, 3, 4, 6>> }

Games ==
    {TestGame, NoRepeatGame} \cup UNION {[1..n -> BaseHands] : n \in 0..MaxRounds}

-----------------------------------------------------------------------------
(* SpecRound: one call of calculate_yams_round_score *)

\* The hands in every order meet the duplicate-free lists in canonical order;
\* the lists in reverse order, and those in any order and with repetitions,
\* meet one hand per multiset of dice.
InitRoundWith(inputs) ==
    /\ pc = "call"
    /\ rounds = <<>>
    /\ \E input \in inputs :
          /\ dice = input[1]
          /\ available_combinations = input[2]
    /\ case_results = <<>>
    /\ result = None
    /\ results = <<>>
    /\ sum = 0

InitRound ==
    InitRoundWith((Dice \X CanonicalLists)
                     \cup (SortedDice \X (ReverseLists \cup ShortLists)))

\* hands no validation has looked at, against the lists of a game's first rounds
InitUnchecked ==
    InitRoundWith(DiceUnchecked \X {l \in CanonicalLists : Len(l) >= 5})

ScoreRound ==
    /\ pc = "call"
    /\ case_results' = CaseResults(dice, available_combinations)
    /\ result' = RoundScoreOf(case_results')
    /\ pc' = "returned"
    /\ UNCHANGED <<rounds, dice, available_combinations, results, sum>>

NextRound == ScoreRound

SpecRound == InitRound /\ [][NextRound]_vars

SpecUnchecked == InitUnchecked /\ [][NextRound]_vars

-----------------------------------------------------------------------------
(* Spec: calculate_yams_total_score *)

Init ==
    /\ pc = "loop"
    /\ rounds \in Games
    /\ dice = <<>>
    /\ available_combinations = ORDERED_COMBINATIONS
    /\ case_results = <<>>
    /\ result = None
    /\ results = <<>>
    /\ sum = 0

\* one iteration of `for dice in rounds`
Round ==
    /\ pc = "loop"
    /\ Len(results) < Len(rounds)
    /\ dice' = rounds[Len(results) + 1]
    /\ case_results' = CaseResults(dice', available_combinations)
    /\ result' = RoundScoreOf(case_results')
    /\ results' = Append(results, result')
    /\ IF result' /= None
          THEN /\ available_combinations' = retain(available_combinations, result'[1][1])
               /\ sum' = sum + result'[1][2]
          ELSE UNCHANGED <<available_combinations, sum>>
    /\ UNCHANGED <<pc, rounds>>

\* the loop is over: `sum` is returned
Return ==
    /\ pc = "loop"
    /\ Len(results) = Len(rounds)
    /\ pc' = "done"
    /\ UNCHANGED <<rounds, dice, available_combinations, case_results, result,
                   results, sum>>

Next == Round \/ Return

Spec == Init /\ [][Next]_vars

-----------------------------------------------------------------------------
(* The contract the claims are stated against, written over die values      *)
(* rather than over the positions of the hand                               *)

Occurrences(d, v) == Cardinality({k \in 1..5 : d[k] = v})

HandSum(d) == d[1] + d[2] + d[3] + d[4] + d[5]

AllEqual(d) == Cardinality(Range(d)) = 1

StraightHand(d) == Range(d) = 1..5 \/ Range(d) = 2..6

FullHouseHand(d) ==
    \E v \in Range(d) : \E w \in Range(d) \ {v} :
        Occurrences(d, v) = 3 /\ Occurrences(d, w) = 2

ContractResult(combination, d) ==
    CASE combination = "Yams" ->
            IF AllEqual(d) THEN Matched(50) ELSE NotMatched
      [] combination = "Straight" ->
            IF StraightHand(d) THEN Matched(40) ELSE NotMatched
      [] combination = "FourOfAKind" ->
            IF \E v \in Range(d) : Occurrences(d, v) >= 4
            THEN Matched(35) ELSE NotMatched
      [] combination = "FullHouse" ->
            IF FullHouseHand(d) THEN Matched(30) ELSE NotMatched
      [] combination = "ThreeOfAKind" ->
            IF \E v \in Range(d) : Occurrences(d, v) >= 3
            THEN Matched(28) ELSE NotMatched
      [] combination = "Chance" -> Matched(HandSum(d))

\* the available combinations whose checker matches the hand
MatchingAvailable(d, available) ==
    {c \in Range(available) : IsMatched(case_map(c, d))}

ScoreOf(c, d) == case_map(c, d)[2]

-----------------------------------------------------------------------------
(* Claims about the checkers and the round scorer (SpecRound)               *)

\* C6: every checker agrees with the contract table on every hand of five
\* dice in 1..6: after a call, each entry of case_results pairs an available
\* combination with the table's result for the hand; Chance is never
\* NotMatched.
C6_CheckersAgreeWithTable ==
    pc = "returned" =>
        /\ Len(case_results) = Len(available_combinations)
        /\ \A k \in DOMAIN case_results :
              /\ case_results[k][2] = available_combinations[k]
              /\ case_results[k][1] = ContractResult(available_combinations[k], dice)
              /\ available_combinations[k] = "Chance" => IsMatched(case_results[k][1])

C6_Witness ==
    /\ pc = "returned"
    /\ dice = <<5, 6, 6, 6, 5>>
    /\ Len(case_results) = 6
    /\ <<Matched(30), "FullHouse">> \in Range(case_results)
    /\ <<Matched(28), "ThreeOfAKind">> \in Range(case_results)
    /\ <<Matched(28), "Chance">> \in Range(case_results)
    /\ <<NotMatched, "FourOfAKind">> \in Range(case_results)
    /\ <<NotMatched, "Straight">> \in Range(case_results)
    /\ <<NotMatched, "Yams">> \in Range(case_results)

\* C2: whenever the round scorer returns Some((c, s)), c is in the available
\* list, the checker of c returns Matched(s) on the hand, and s is at least
\* the score of every available combination whose checker matches.
C2_AwardIsBestAvailableMatch ==
    (pc = "returned" /\ result /= None) =>
        LET c == result[1][1]
            s == result[1][2]
        IN  /\ c \in Range(available_combinations)
            /\ case_map(c, dice) = Matched(s)
            /\ \A c2 \in MatchingAvailable(dice, available_combinations) :
                  ScoreOf(c2, dice) <= s

\* the best match sits between two lower-scoring matches
C2_Witness ==
    /\ pc = "returned"
    /\ dice = <<1, 4, 4, 4, 4>>
    /\ available_combinations = <<"ThreeOfAKind", "FourOfAKind", "Chance">>
    /\ result = Some(<<"FourOfAKind", 35>>)

\* C4: the round scorer returns None exactly when no available combination
\* matches the hand (the empty list included); hence the result is Some
\* whenever Chance is available.
C4_NoneIffNothingMatches ==
    pc = "returned" =>
        /\ result = None <=> MatchingAvailable(dice, available_combinations) = {}
        /\ "Chance" \in Range(available_combinations) => result /= None

\* a Matched result stands between NotMatched ones and is still selected
C4_Witness ==
    /\ pc = "returned"
    /\ available_combinations = <<"Yams", "Chance", "Straight">>
    /\ case_results[1][1] = NotMatched
    /\ IsMatched(case_results[2][1])
    /\ case_results[3][1] = NotMatched
    /\ result = Some(<<"Chance", HandSum(dice)>>)

\* C5: with the named combination available, whatever else the list holds,
\* the round scorer returns (Yams, 50) for five equal dice, (Straight, 40)
\* for a straight, (FourOfAKind, 35) for exactly four of a value,
\* (FullHouse, 30) for a triple plus a pair, (ThreeOfAKind, 28) for exactly
\* three of a value that is no full house, and (Chance, sum) when Chance is
\* available and nothing else available matches.
C5_NamedCombinationAwarded ==
    pc = "returned" =>
        LET has(c) == c \in Range(available_combinations)
        IN  /\ (has("Yams") /\ AllEqual(dice)) => result = Some(<<"Yams", 50>>)
            /\ (has("Straight") /\ StraightHand(dice))
                  => result = Some(<<"Straight", 40>>)
            /\ (has("FourOfAKind") /\ \E v \in 1..6 : Occurrences(dice, v) = 4)
                  => result = Some(<<"FourOfAKind", 35>>)
            /\ (has("FullHouse") /\ FullHouseHand(dice))
                  => result = Some(<<"FullHouse", 30>>)
            /\ (/\ has("ThreeOfAKind")
                /\ \E v \in 1..6 : Occurrences(dice, v) = 3
                /\ ~FullHouseHand(dice))
                  => result = Some(<<"ThreeOfAKind", 28>>)
            /\ (/\ has("Chance")
                /\ MatchingAvailable(dice, available_combinations) \subseteq {"Chance"})
                  => result = Some(<<"Chance", HandSum(dice)>>)

\* three sixes, no full house, the hand's sum one short of 28, Chance listed first
C5_Witness ==
    /\ pc = "returned"
    /\ dice = <<4, 5, 6, 6, 6>>
    /\ available_combinations = Reverse(ORDERED_COMBINATIONS)
    /\ result = Some(<<"ThreeOfAKind", 28>>)

\* the positions of the available list whose result is Matched with the
\* highest matched score
TiedBest(cases) ==
    {k \in DOMAIN cases :
        /\ IsMatched(cases[k][1])
        /\ \A j \in DOMAIN cases :
              IsMatched(cases[j][1]) => cases[j][1][2] <= cases[k][1][2]}

Min(S) == CHOOSE x \in S : \A y \in S : x <= y
Max(S) == CHOOSE x \in S : \A y \in S : x >= y

TieInCanonicalList ==
    /\ pc = "returned"
    /\ available_combinations \in CanonicalLists
    /\ Cardinality(TiedBest(case_results)) >= 2

\* C7 as claimed: when several available combinations match with the same
\* maximum score and the list is in canonical order, the round scorer returns
\* the tied combination encountered first.
C7_FirstTiedWins ==
    TieInCanonicalList =>
        result = Some(<<available_combinations[Min(TiedBest(case_results))],
                        case_results[Min(TiedBest(case_results))][1][2]>>)

\* C7 as amended: in that case the round scorer returns the tied combination
\* encountered last in the canonical order (Chance rather than ThreeOfAKind).
C7_LastTiedWins ==
    TieInCanonicalList =>
        result = Some(<<available_combinations[Max(TiedBest(case_results))],
                        case_results[Max(TiedBest(case_results))][1][2]>>)

C7_Witness ==
    /\ TieInCanonicalList
    /\ dice = <<6, 6, 6, 5, 5>>
    /\ available_combinations = <<"Yams", "ThreeOfAKind", "Chance">>
    /\ result = Some(<<"Chance", 28>>)

-----------------------------------------------------------------------------
(* Claim about hands outside the contract (SpecUnchecked)                   *)

\* C9: a hand with a die outside 1..6 is rejected before any checker runs:
\* no checker result is computed and no award is produced for it.
C9_MalformedHandRejected ==
    (pc = "returned" /\ \E k \in 1..5 : dice[k] \notin DieValues) =>
        /\ case_results = <<>>
        /\ result = None

-----------------------------------------------------------------------------
(* Claims about the game scorer (Spec)                                      *)

Awarded(h) == {k \in DOMAIN h : h[k] /= None}

\* the combinations awarded in the first n rounds
Consumed(h, n) == {h[k][1][1] : k \in {j \in Awarded(h) : j <= n}}

\* C1: each combination is awarded at most once in a game, and every round
\* is scored among the combinations no earlier round was awarded, even when
\* its hand satisfies one of those.
C1_AwardedAtMostOnce ==
    /\ \A i \in Awarded(results) : \A j \in Awarded(results) :
          i < j => results[i][1][1] /= results[j][1][1]
    /\ \A j \in DOMAIN results :
          results[j] = calculate_yams_round_score(rounds[j],
              SelectSeq(ORDERED_COMBINATIONS,
                        LAMBDA c : c \notin Consumed(results, j - 1)))

\* the second hand of five sixes satisfies Yams, which the first consumed
C1_Witness ==
    /\ Len(results) >= 2
    /\ rounds[1] = <<6, 6, 6, 6, 6>>
    /\ rounds[2] = <<6, 6, 6, 6, 6>>
    /\ results[1] = Some(<<"Yams", 50>>)
    /\ check_yams(rounds[2]) = Matched(50)
    /\ results[2] = Some(<<"FourOfAKind", 35>>)

\* C3: a round that yields Some((c, s)) removes exactly c from the available
\* combinations, the others keeping their order, and adds exactly s to the
\* running total; a round that yields None changes neither.  The value
\* returned is the running total after the last hand, 149 for the test game.
C3_RoundStep ==
    /\ Len(results') = Len(results) + 1 =>
          LET r == results'[Len(results')]
              n == Len(available_combinations)
          IN  IF r /= None
              THEN /\ \E k \in 1..n :
                        /\ available_combinations[k] = r[1][1]
                        /\ available_combinations' =
                              SubSeq(available_combinations, 1, k - 1)
                                  \o SubSeq(available_combinations, k + 1, n)
                   /\ sum' = sum + r[1][2]
              ELSE /\ available_combinations' = available_combinations
                   /\ sum' = sum
    /\ (pc = "loop" /\ pc' = "done") =>
          /\ Len(results) = Len(rounds)
          /\ sum' = sum
          /\ rounds = TestGame => sum' = 149

\* C3: every step of calculate_yams_total_score is such a round step or the
\* return of the running total.
C3_RoundFrame == [][C3_RoundStep]_vars

C3_Witness ==
    /\ pc = "done"
    /\ rounds = TestGame
    /\ results = << Some(<<"ThreeOfAKind", 28>>), Some(<<"FourOfAKind", 35>>),
                    Some(<<"FullHouse", 30>>), Some(<<"Straight", 40>>),
                    Some(<<"Chance", 16>>) >>
    /\ available_combinations = <<"Yams">>
    /\ sum = 149

\* C8: in a game of more than six hands at most six rounds yield an award,
\* and once six combinations are consumed every later round yields None and
\* leaves the running total as it is.
C8_ExhaustedStep ==
    Len(rounds) > 6 =>
        /\ Cardinality(Awarded(results')) <= 6
        /\ (/\ Cardinality(Consumed(results, Len(results))) = 6
            /\ Len(results') = Len(results) + 1)
              => /\ results'[Len(results')] = None
                 /\ sum' = sum

\* C8: no step of a game of more than six hands awards a seventh time or
\* changes the total once the six combinations are consumed.
C8_NoAwardAfterExhaustion == [][C8_ExhaustedStep]_vars

C8_Witness ==
    /\ Len(rounds) > 6
    /\ Len(results) = 7
    /\ Awarded(results) = 1..6
    /\ rounds[7] = <<6, 6, 6, 6, 6>>
    /\ results[7] = None
    /\ available_combinations = <<>>

MaxScore(c) ==
    CASE c = "Yams" -> 50
      [] c = "Straight" -> 40
      [] c = "FourOfAKind" -> 35
      [] c = "FullHouse" -> 30
      [] c = "ThreeOfAKind" -> 28
      [] c = "Chance" -> 30

RECURSIVE SumOver(_)
SumOver(S) ==
    IF S = {} THEN 0
    ELSE LET c == CHOOSE x \in S : TRUE IN MaxScore(c) + SumOver(S \ {c})

\* C10: the running total is at most the sum of the maximum scores of the
\* combinations consumed so far, hence at most 213; the available list is a
\* duplicate-free subsequence of the canonical order, six minus the number of
\* awarding rounds long.
C10_TotalAndAvailabilityBounds ==
    /\ sum <= SumOver(Consumed(results, Len(results)))
    /\ sum <= 213
    /\ available_combinations =
          SelectSeq(ORDERED_COMBINATIONS,
                    LAMBDA c : c \in Range(available_combinations))
    /\ Len(available_combinations) = 6 - Cardinality(Awarded(results))

C10_Witness ==
    /\ pc = "done"
    /\ sum = 213
    /\ available_combinations = <<>>
    /\ Cardinality(Awarded(results)) = 6

=============================================================================
